---- MODULE Spec2Model ----
(***************************************************************************)
(* State-machine model of the Lambda handlers of src/lambda/app.py:        *)
(* lambda_handler, cortex_analyst_chat_handler, execute_sql_handler and    *)
(* test_snowflake_handler, with the remote SQL engine and the remote       *)
(* Cortex Analyst REST endpoint as nondeterministic collaborators.         *)
(*                                                                         *)
(* Conventions.  A Python str is a sequence of fragments (<<>> is the      *)
(* empty str, so "not s" is Len(s) = 0); the fragment Suffix stands for    *)
(* ".snowflakecomputing.com", "_" and "-" for those characters and " "     *)
(* for a whitespace character.  A text that json.loads may be given is a   *)
(* record [kind, val]: kind "object" is the JSON text of the object val,   *)
(* "string" the JSON text of a JSON string, "array" the JSON text of a     *)
(* list, "raw" a non-empty text that is not JSON, "empty" the text "" and  *)
(* "none" Python's None.  A JSON object is a function from keys to values. *)
(***************************************************************************)
EXTENDS Integers, Sequences, FiniteSets, TLC

VARIABLES
    env,             \* os.environ: SNOWFLAKE_ACCOUNT, _USER, _TOKEN
    pc,              \* position of the running invocation
    handler,         \* the handler the invocation runs
    event,           \* the inbound event
    sql,             \* execute_sql_handler: the local sql
    messages,        \* cortex_analyst_chat_handler: the local messages
    semantic_model,  \* cortex_analyst_chat_handler: the local semantic_model
    conn,            \* the invocation's connection: "none", "open", "closed"
    cursor,          \* the invocation's cursor: "none", "open", "closed"
    connectArgs,     \* arguments of the last snowflake.connector.connect call
    connectAttempts, \* calls of snowflake.connector.connect in this invocation
    restCalls,       \* calls of requests.post in this invocation
    restRequest,     \* the request handed to requests.post
    remote,          \* what the remote chat endpoint answered, if reached
    columns,         \* execute_sql_handler: the local columns
    rows,            \* execute_sql_handler / test_snowflake_handler: fetched rows
    results,         \* execute_sql_handler: the local results
    exc,             \* the exception raised in this invocation, if any
    resp,            \* the envelope returned by this invocation
    returned,        \* number of envelopes this invocation returned
    escaped,         \* TRUE when an exception left the handler
    invocations,     \* invocations started so far
    leaked           \* connections left open by finished invocations

vars == <<env, pc, handler, event, sql, messages, semantic_model, conn, cursor,
          connectArgs, connectAttempts, restCalls, restRequest, remote, columns,
          rows, results, exc, resp, returned, escaped, invocations, leaked>>

(***************************************************************************)
(* Bounds of the model.                                                    *)
(***************************************************************************)
MaxInvocations == 2

\* rows of a fetched result set
MaxRows == 2

(***************************************************************************)
(* Python strings.                                                         *)
(***************************************************************************)
Str(s) == <<s>>

EmptyStr == <<>>

Suffix == ".snowflakecomputing.com"

RECURSIVE IndexOf(_, _, _)
\* str.find: the first position >= i of a fragment in a str, 0 when absent
IndexOf(s, frag, i) ==
    IF i > Len(s) THEN 0
    ELSE IF s[i] = frag THEN i
    ELSE IndexOf(s, frag, i + 1)

Contains(s, frag) == IndexOf(s, frag, 1) # 0

\* s.split(frag)[0]: what precedes the first occurrence
SplitFirst(s, frag) ==
    IF Contains(s, frag) THEN SubSeq(s, 1, IndexOf(s, frag, 1) - 1) ELSE s

RECURSIVE Replace(_, _, _)
\* s.replace(old, new): every occurrence replaced; new is a str
Replace(s, old, new) ==
    IF s = <<>> THEN <<>>
    ELSE (IF Head(s) = old THEN new ELSE <<Head(s)>>) \o Replace(Tail(s), old, new)

\* Python truthiness of a str or a list
Truthy(s) == Len(s) > 0

SqlMissing_IsNone(s) == FALSE

\* execute_sql_handler: if not sql
SqlMissing(s) == ~Truthy(s)

MessagesMissing_IsNone(m) == FALSE

\* cortex_analyst_chat_handler: if not messages
MessagesMissing(m) == ~Truthy(m)

(***************************************************************************)
(* JSON texts and json.loads / json.dumps.                                 *)
(***************************************************************************)
NoneValue == [kind |-> "none", val |-> <<>>]

EmptyText == [kind |-> "empty", val |-> <<>>]

RawText(s) == [kind |-> "raw", val |-> s]

ArrayText == [kind |-> "array", val |-> <<>>]

ObjectText(obj) == [kind |-> "object", val |-> obj]

EmptyObject == [k \in {} |-> <<>>]

IsText(v) == DOMAIN v = {"kind", "val"}

\* json.dumps(v): the JSON text of v.  The JSON text of a text is the text of
\* a JSON string, which parses back to that text and not to an object.
JsonDumps(v) ==
    IF IsText(v) THEN [kind |-> "string", val |-> v] ELSE ObjectText(v)

JsonParses(t) == t.kind \in {"object", "string", "array"}

\* json.loads(t) for a text that parses
JsonLoads(t) == t.val

\* dict.get(key, default)
DictGet(obj, key, default) == IF key \in DOMAIN obj THEN obj[key] ELSE default

(***************************************************************************)
(* Exceptions.                                                             *)
(***************************************************************************)
NoExc == [type |-> "", module |-> "", msg |-> <<>>]

Exc(type, module, msg) == [type |-> type, module |-> module, msg |-> msg]

\* json.loads(None)
LoadsNoneError ==
    Exc("TypeError", "builtins",
        Str("the JSON object must be str, bytes or bytearray, not NoneType"))

\* json.loads of a text that is not JSON
LoadsDecodeError ==
    Exc("JSONDecodeError", "json", Str("Expecting value: line 1 column 1 (char 0)"))

\* body.get on a list
ListGetError ==
    Exc("AttributeError", "builtins", Str("'list' object has no attribute 'get'"))

\* json.dumps of a value it cannot serialize
DumpsTypeError ==
    Exc("TypeError", "builtins", Str("Object of type bytes is not JSON serializable"))

\* result[0] when fetchone() returned None
SubscriptNoneError ==
    Exc("TypeError", "builtins", Str("'NoneType' object is not subscriptable"))

IsException_BuiltinsOnly(e) == e.module = "builtins"

\* the classes the "except Exception" clauses catch
ExceptionModules == {"builtins", "json", "requests", "snowflake"}

IsException(e) == e.module \in ExceptionModules

\* the classes "except requests.exceptions.RequestException" catches
IsRequestException(e) == e.module = "requests"

(***************************************************************************)
(* The environment.  A variable is unset, or set to a str.                 *)
(***************************************************************************)
Unset == [set |-> FALSE, val |-> <<>>]

SetTo(s) == [set |-> TRUE, val |-> s]

AccountValues ==
    { EmptyStr,
      Str("ABC123"),
      <<"ABC", "_", "123">>,
      <<"ABC123", Suffix>>,
      <<Suffix>>,
      <<"AB", "_", "1", Suffix, "/x">> }

UserValues == {EmptyStr, Str("SVC_USER")}

TokenValues == {EmptyStr, Str("pat-secret")}

Environments ==
    [account : {Unset} \cup {SetTo(a) : a \in AccountValues},
     user    : {Unset} \cup {SetTo(u) : u \in UserValues},
     token   : {Unset} \cup {SetTo(t) : t \in TokenValues}]

\* os.environ.get(name): None when unset
EnvironGet(name) == env[name]

\* os.getenv(name, ''): the default '' when unset
GetenvOrEmpty(name) == IF env[name].set THEN env[name].val ELSE EmptyStr

\* "not v" for an optional str: None and '' are falsy
Present(v) == v.set /\ Truthy(v.val)

\* get_snowflake_connection / test_snowflake_handler: the account handed to
\* the connector
SqlAccount(account) ==
    IF Present(account) /\ Contains(account.val, Suffix)
    THEN SetTo(SplitFirst(account.val, Suffix))
    ELSE account

\* cortex_analyst_chat_handler: the local account
ChatAccount(account) ==
    IF Contains(account, Suffix) THEN Replace(account, Suffix, EmptyStr) ELSE account

\* cortex_analyst_chat_handler: the local account_url
AccountUrl(account) == Replace(account, "_", Str("-"))

(***************************************************************************)
(* Inbound events.                                                         *)
(***************************************************************************)
Msg == [role |-> "user", content |-> Str("What questions can I ask?")]

DefaultSemanticModel ==
    Str("DAMPIERMIKE.REVENUE_TIMESERIES.RAW_DATA/revenue_timeseries.yaml")

SqlObjects ==
    { [sql |-> EmptyStr],
      [sql |-> <<" ">>],
      [sql |-> <<" ", " ">>],
      [sql |-> Str("SELECT 1 AS V")] }

ChatObjects ==
    { [messages |-> <<>>],
      [messages |-> <<>>, semantic_model |-> Str("m.yaml")],
      [messages |-> <<Msg>>],
      [messages |-> <<Msg, Msg>>, semantic_model |-> Str("m.yaml")] }

Bodies ==
    {NoneValue, EmptyText, RawText(Str("not json")), ArrayText}
        \cup {ObjectText(o) : o \in {EmptyObject} \cup SqlObjects \cup ChatObjects}

\* create_test_event and create_api_gateway_event always set the "body" key;
\* a hand-made event may leave it out
Events == {[hasBody |-> FALSE, body |-> NoneValue]}
              \cup {[hasBody |-> TRUE, body |-> b] : b \in Bodies}

\* event.get('body', '{}')
EventBody(ev) == IF ev.hasBody THEN ev.body ELSE ObjectText(EmptyObject)

\* json.loads(event.get('body', '{}')) followed by body.get(...): the
\* exception the two raise, NoExc when neither does
ParseError(ev) ==
    LET t == EventBody(ev) IN
    IF t.kind = "none" THEN LoadsNoneError
    ELSE IF ~JsonParses(t) THEN LoadsDecodeError
    ELSE IF t.kind # "object" THEN ListGetError
    ELSE NoExc

(***************************************************************************)
(* Response envelopes.                                                     *)
(***************************************************************************)
Headers ==
    ("Content-Type" :> "application/json") @@ ("Access-Control-Allow-Origin" :> "*")

NoHeaders == [k \in {} |-> ""]

Envelope_DoubleEncoded(status, payload) ==
    [statusCode |-> status, headers |-> Headers, body |-> JsonDumps(JsonDumps(payload))]

\* the dict every return statement of the handlers builds
Envelope(status, payload) ==
    [statusCode |-> status, headers |-> Headers, body |-> JsonDumps(payload)]

NoEnvelope == [statusCode |-> 0, headers |-> NoHeaders, body |-> NoneValue]

\* the "except Exception as e" envelope of the three handlers
ErrorEnvelope(e) == Envelope(500, [error |-> e.msg, type |-> e.type])

\* the "except requests.exceptions.RequestException as e" envelope
TransportEnvelope(e) ==
    Envelope(500, [error |-> Str("REST API request failed: ") \o e.msg,
                   type |-> "RequestException"])

NoMessagesEnvelope == Envelope(400, [error |-> Str("No messages provided")])

NoSqlEnvelope == Envelope(400, [error |-> Str("No SQL query provided")])

ChatMissingCredentialsEnvelope ==
    Envelope(500, [error |-> Str("Missing Snowflake credentials")])

TestMissingCredentialsEnvelope ==
    Envelope(400,
        [error   |-> Str("Missing Snowflake credentials"),
         message |-> Str("Please set SNOWFLAKE_ACCOUNT, SNOWFLAKE_USER, and SNOWFLAKE_TOKEN environment variables")])

HelloEnvelope(ev) ==
    Envelope(200, [message |-> Str("Hello from Lambda!"), event |-> ev])

ConnectorNotInstalledEnvelope ==
    Envelope(500,
        [error   |-> Str("Snowflake connector not installed"),
         message |-> Str("Run: pip install snowflake-connector-python")])

(***************************************************************************)
(* Result sets and their normalization.  A cell is [t, v]: its Python type *)
(* and its value as a str of fragments.                                    *)
(***************************************************************************)
Cell(t, v) == [t |-> t, v |-> v]

NullCell == Cell("null", EmptyStr)

IntCell == Cell("int", Str("1"))

TextCell == Cell("text", Str("abc"))

FloatCell == Cell("float", <<"12", ".", "5">>)

DecimalCell == Cell("decimal", <<"12", ".", "5", "0">>)

DateCell == Cell("date", <<"2024", "01", "15">>)

TimestampCell == Cell("timestamp", <<"2024", "01", "15", "10", "30", "00">>)

\* a type json.dumps cannot serialize and the loop does not convert: bytes
OtherCell == Cell("other", Str("\\x00"))

\* date.isoformat() / datetime.isoformat()
IsoFormat(v) ==
    IF Len(v) = 3
    THEN <<v[1], "-", v[2], "-", v[3]>>
    ELSE <<v[1], "-", v[2], "-", v[3], "T", v[4], ":", v[5], ":", v[6]>>

RECURSIVE StripTrailingZeros(_)
StripTrailingZeros(v) ==
    IF Len(v) > 3 /\ v[Len(v)] = "0"
    THEN StripTrailingZeros(SubSeq(v, 1, Len(v) - 1))
    ELSE v

\* float(Decimal): the digits without the trailing zeros of the fraction
FloatOfDecimal(v) == StripTrailingZeros(v)

\* the chain with the Decimal branch turned into str(value)
NormalizeCell_DecimalAsStr(c) ==
    IF c.t \in {"date", "timestamp"} THEN Cell("text", IsoFormat(c.v))
    ELSE IF c.t = "decimal" THEN Cell("text", c.v)
    ELSE IF c.t = "null" THEN NullCell
    ELSE c

\* the if/elif chain of the inner loop of execute_sql_handler
NormalizeCell(c) ==
    IF c.t \in {"date", "timestamp"} THEN Cell("text", IsoFormat(c.v))
    ELSE IF c.t = "decimal" THEN Cell("float", FloatOfDecimal(c.v))
    ELSE IF c.t = "null" THEN NullCell
    ELSE c

Min(a, b) == IF a < b THEN a ELSE b

\* row_dict: zip(columns, row) stops at the shorter; a repeated column name
\* keeps its last cell
RowDict(cols, row) ==
    LET n == Min(Len(cols), Len(row)) IN
    [c \in {cols[i] : i \in 1..n} |->
        LET last == CHOOSE i \in 1..n :
                        cols[i] = c /\ \A j \in 1..n : cols[j] = c => j <= i
        IN  NormalizeCell(row[last])]

\* the loop with results.append(row_dict) outside it: the last row only
NormalizeRows_LastOnly(cols, rs) ==
    IF rs = <<>> THEN <<>> ELSE <<RowDict(cols, rs[Len(rs)])>>

\* the outer loop: one row_dict per fetched row, in order
NormalizeRows(cols, rs) == [i \in 1..Len(rs) |-> RowDict(cols, rs[i])]

\* json.dumps accepts None, str, int and float cells
SerializableCell(c) == c.t \in {"null", "text", "int", "float"}

Serializable(res) ==
    \A i \in 1..Len(res) : \A c \in DOMAIN res[i] : SerializableCell(res[i][c])

SampleResultSets ==
    { [columns |-> <<"V">>, rows |-> << <<IntCell>> >>],
      [columns |-> <<"V">>, rows |-> << >>],
      [columns |-> <<"D", "N">>,
       rows    |-> << <<DateCell, DecimalCell>>, <<NullCell, TextCell>> >>],
      [columns |-> <<"T", "F">>, rows |-> << <<TimestampCell, FloatCell>> >>],
      [columns |-> <<"B">>, rows |-> << <<OtherCell>> >>] }

\* one cell of every type the if/elif chain tells apart, and of the types
\* it passes through
CellPool ==
    <<NullCell, IntCell, TextCell, FloatCell, DecimalCell, DateCell,
      TimestampCell, OtherCell, Cell("decimal", <<"7", ".", "0", "0">>)>>

\* cursor.description of the statements drawn: one column, two columns, and
\* two columns of the same name (SELECT 1 AS A, 2 AS A)
ColumnLists == {<<"V">>, <<"A", "B">>, <<"A", "A">>}

RowStrides == {1, 3}

\* rows of n cells: every cell of the pool in every column, next to two
\* different neighbours
RowsOf(n) ==
    {[j \in 1..n |-> CellPool[((k + (j - 1) * d) % Len(CellPool)) + 1]] :
        k \in 0..(Len(CellPool) - 1), d \in RowStrides}

RowLists(n) == UNION {[1..m -> RowsOf(n)] : m \in 0..MaxRows}

\* what cursor.description and cursor.fetchall() may give
ResultSets ==
    UNION {{[columns |-> cols, rows |-> rs] : rs \in RowLists(Len(cols))} :
              cols \in ColumnLists}

SqlSuccessEnvelope(cols, res) ==
    Envelope(200, [columns |-> cols, data |-> res, row_count |-> Len(res)])

\* the row fetchone() gives for the test query
VersionRow == <<Str("8.40.1"), Str("COMPUTE_WH"), Str("DEMO"), Str("PUBLIC")>>

TestSuccessEnvelope(result) ==
    Envelope(200,
        [message           |-> Str("Successfully connected to Snowflake!"),
         snowflake_version |-> result[1],
         warehouse         |-> result[2],
         database          |-> result[3],
         schema            |-> result[4]])

(***************************************************************************)
(* The remote sides.                                                       *)
(***************************************************************************)
\* snowflake.connector.connect(user=, password=, account=, ...): the
\* connector refuses an absent or empty account, user or password, and may
\* fail to reach or log in to the engine otherwise
ConnectOutcomes(args) ==
    IF ~Present(args.account)
    THEN {Exc("ProgrammingError", "snowflake", Str("251001: Account must be specified"))}
    ELSE IF ~Present(args.user)
    THEN {Exc("ProgrammingError", "snowflake", Str("251005: User is empty"))}
    ELSE IF ~Present(args.password)
    THEN {Exc("ProgrammingError", "snowflake", Str("251006: Password is empty"))}
    ELSE {NoExc,
          Exc("DatabaseError", "snowflake",
              Str("250001: Failed to connect to DB. Incorrect username or password was specified."))}

\* cursor.execute(sql)
ExecuteOutcomes ==
    {NoExc,
     Exc("ProgrammingError", "snowflake", Str("001003 (42000): SQL compilation error"))}

\* cursor.fetchall() / cursor.fetchone()
FetchOutcomes ==
    {NoExc,
     Exc("OperationalError", "snowflake", Str("250003: Failed to get the response"))}

\* requests.post(...) when the endpoint is not reached
PostErrors ==
    {Exc("ConnectionError", "requests", Str("Max retries exceeded with url")),
     Exc("ReadTimeout", "requests", Str("Read timed out. (read timeout=120)"))}

RemoteStatuses == {200, 204, 403, 500}

RemoteBodies ==
    {ObjectText([message |-> Str("forbidden")]),
     ObjectText([request_id |-> Str("r-1"), message |-> Str("answer")]),
     RawText(Str("<html>Bad Gateway</html>")),
     EmptyText}

RemoteResponses == [status : RemoteStatuses, body : RemoteBodies]

NoResponse == [reached |-> FALSE, status |-> 0, body |-> NoneValue]

Reached(r) == [reached |-> TRUE, status |-> r.status, body |-> r.body]

\* response.json() of a body that is not JSON: requests 2.27 and later raise
\* requests.exceptions.JSONDecodeError, a RequestException; earlier versions
\* raise json.JSONDecodeError (or simplejson's).  The repository pins no
\* version.
ResponseJsonErrors ==
    {Exc("JSONDecodeError", "requests", Str("Expecting value: line 1 column 1 (char 0)")),
     Exc("JSONDecodeError", "json", Str("Expecting value: line 1 column 1 (char 0)"))}

\* response.text
ResponseText(t) == IF t.kind \in {"raw", "empty"} THEN t.val ELSE Str("<json text>")

(***************************************************************************)
(* How an invocation ends.                                                 *)
(***************************************************************************)
Returned(e) == [resp |-> e, returned |-> 1, escaped |-> FALSE]

Escaped == [resp |-> NoEnvelope, returned |-> 0, escaped |-> TRUE]

\* execute_sql_handler: except Exception as e
SqlExcept(e) == IF IsException(e) THEN Returned(ErrorEnvelope(e)) ELSE Escaped

\* cortex_analyst_chat_handler: except RequestException, then except Exception
ChatExcept(e) ==
    IF IsRequestException(e) THEN Returned(TransportEnvelope(e))
    ELSE IF IsException(e) THEN Returned(ErrorEnvelope(e))
    ELSE Escaped

\* test_snowflake_handler: except ImportError, then except Exception
TestExcept(e) ==
    IF e.type = "ImportError" THEN Returned(ConnectorNotInstalledEnvelope)
    ELSE IF IsException(e) THEN Returned(ErrorEnvelope(e))
    ELSE Escaped

\* the handler is left: with an envelope, or with the exception e escaping
Finish(c, e) ==
    /\ pc' = "done"
    /\ resp' = c.resp
    /\ returned' = returned + c.returned
    /\ escaped' = c.escaped
    /\ exc' = e

\* the handler goes on to its next step
Continue(next) ==
    /\ pc' = next
    /\ UNCHANGED <<resp, returned, escaped, exc>>

NoArgs == [user |-> Unset, password |-> Unset, account |-> Unset]

NoRequest ==
    [url           |-> EmptyStr,
     authorization |-> EmptyStr,
     json          |-> [messages |-> <<>>, semantic_model_file |-> EmptyStr]]

chatVars == <<messages, semantic_model, restCalls, restRequest, remote>>

sqlVars == <<sql, columns, results>>

dbVars == <<conn, cursor, connectArgs, connectAttempts, rows>>

fixedVars == <<env, handler, event, invocations, leaked>>

(***************************************************************************)
(* Init: the process after the module is loaded, no invocation yet.        *)
(***************************************************************************)
Init ==
    /\ env \in Environments
    /\ pc = "idle"
    /\ handler = "none"
    /\ event = [hasBody |-> FALSE, body |-> NoneValue]
    /\ sql = EmptyStr
    /\ messages = <<>>
    /\ semantic_model = EmptyStr
    /\ conn = "none"
    /\ cursor = "none"
    /\ connectArgs = NoArgs
    /\ connectAttempts = 0
    /\ restCalls = 0
    /\ restRequest = NoRequest
    /\ remote = NoResponse
    /\ columns = <<>>
    /\ rows = <<>>
    /\ results = <<>>
    /\ exc = NoExc
    /\ resp = NoEnvelope
    /\ returned = 0
    /\ escaped = FALSE
    /\ invocations = 0
    /\ leaked = 0

Handlers == {"lambda", "chat", "sql", "test"}

\* The runtime calls handler h with event ev.  Nothing of the previous
\* invocation is kept, except a connection it left open.
Invoke(h, ev) ==
    /\ pc \in {"idle", "done"}
    /\ invocations < MaxInvocations
    /\ invocations' = invocations + 1
    /\ leaked' = leaked + (IF conn = "open" THEN 1 ELSE 0)
    /\ handler' = h
    /\ event' = ev
    /\ pc' = "start"
    /\ sql' = EmptyStr
    /\ messages' = <<>>
    /\ semantic_model' = EmptyStr
    /\ conn' = "none"
    /\ cursor' = "none"
    /\ connectArgs' = NoArgs
    /\ connectAttempts' = 0
    /\ restCalls' = 0
    /\ restRequest' = NoRequest
    /\ remote' = NoResponse
    /\ columns' = <<>>
    /\ rows' = <<>>
    /\ results' = <<>>
    /\ exc' = NoExc
    /\ resp' = NoEnvelope
    /\ returned' = 0
    /\ escaped' = FALSE
    /\ UNCHANGED env

(***************************************************************************)
(* lambda_handler                                                          *)
(***************************************************************************)
LambdaHandler ==
    /\ handler = "lambda" /\ pc = "start"
    /\ Finish(Returned(HelloEnvelope(event)), NoExc)
    /\ UNCHANGED <<fixedVars, chatVars, sqlVars, dbVars>>

(***************************************************************************)
(* execute_sql_handler                                                     *)
(***************************************************************************)
\* body = json.loads(...); sql = body.get('sql', ''); if not sql: return 400
SqlValidate ==
    /\ handler = "sql" /\ pc = "start"
    /\ LET e == ParseError(event) IN
       IF e # NoExc
       THEN Finish(SqlExcept(e), e) /\ UNCHANGED sql
       ELSE LET s == DictGet(JsonLoads(EventBody(event)), "sql", EmptyStr) IN
            /\ sql' = s
            /\ IF SqlMissing(s)
               THEN Finish(Returned(NoSqlEnvelope), NoExc)
               ELSE Continue("connect")
    /\ UNCHANGED <<fixedVars, chatVars, dbVars, columns, results>>

\* get_snowflake_connection(): the arguments of snowflake.connector.connect
ConnectionArgs ==
    [user     |-> EnvironGet("user"),
     password |-> EnvironGet("token"),
     account  |-> SqlAccount(EnvironGet("account"))]

\* conn = get_snowflake_connection(); cursor = conn.cursor()
SqlConnect ==
    /\ handler = "sql" /\ pc = "connect"
    /\ connectArgs' = ConnectionArgs
    /\ connectAttempts' = connectAttempts + 1
    /\ \E e \in ConnectOutcomes(ConnectionArgs) :
          IF e = NoExc
          THEN conn' = "open" /\ cursor' = "open" /\ Continue("execute")
          ELSE Finish(SqlExcept(e), e) /\ UNCHANGED <<conn, cursor>>
    /\ UNCHANGED <<fixedVars, chatVars, sqlVars, rows>>

\* cursor.execute(sql)
SqlExecute ==
    /\ handler = "sql" /\ pc = "execute"
    /\ \E e \in ExecuteOutcomes :
          IF e = NoExc THEN Continue("fetch") ELSE Finish(SqlExcept(e), e)
    /\ UNCHANGED <<fixedVars, chatVars, sqlVars, dbVars>>

\* columns = [desc[0] for desc in cursor.description]; rows = cursor.fetchall()
SqlFetch ==
    /\ handler = "sql" /\ pc = "fetch"
    /\ \E e \in FetchOutcomes :
          IF e = NoExc
          THEN /\ \E rs \in SampleResultSets :
                     columns' = rs.columns /\ rows' = rs.rows
               /\ Continue("normalize")
          ELSE Finish(SqlExcept(e), e) /\ UNCHANGED <<columns, rows>>
    /\ UNCHANGED <<fixedVars, chatVars, sql, results, conn, cursor,
                   connectArgs, connectAttempts>>

\* the loop that builds results
SqlNormalize ==
    /\ handler = "sql" /\ pc = "normalize"
    /\ results' = NormalizeRows(columns, rows)
    /\ Continue("close")
    /\ UNCHANGED <<fixedVars, chatVars, sql, columns, dbVars>>

\* cursor.close(); conn.close()
SqlClose ==
    /\ handler = "sql" /\ pc = "close"
    /\ cursor' = "closed"
    /\ conn' = "closed"
    /\ Continue("return")
    /\ UNCHANGED <<fixedVars, chatVars, sqlVars, connectArgs, connectAttempts, rows>>

\* return {..., "body": json.dumps({columns, data, row_count})}
SqlReturn ==
    /\ handler = "sql" /\ pc = "return"
    /\ IF Serializable(results)
       THEN Finish(Returned(SqlSuccessEnvelope(columns, results)), NoExc)
       ELSE Finish(SqlExcept(DumpsTypeError), DumpsTypeError)
    /\ UNCHANGED <<fixedVars, chatVars, sqlVars, dbVars>>

(***************************************************************************)
(* cortex_analyst_chat_handler                                             *)
(***************************************************************************)
\* body = json.loads(...); messages, semantic_model = body.get(...);
\* if not messages: return 400
ChatValidate ==
    /\ handler = "chat" /\ pc = "start"
    /\ LET e == ParseError(event) IN
       IF e # NoExc
       THEN Finish(ChatExcept(e), e) /\ UNCHANGED <<messages, semantic_model>>
       ELSE LET body == JsonLoads(EventBody(event)) IN
            /\ messages' = DictGet(body, "messages", <<>>)
            /\ semantic_model' = DictGet(body, "semantic_model", DefaultSemanticModel)
            /\ IF MessagesMissing(messages')
               THEN Finish(Returned(NoMessagesEnvelope), NoExc)
               ELSE Continue("credentials")
    /\ UNCHANGED <<fixedVars, sqlVars, dbVars, restCalls, restRequest, remote>>

\* account, token = os.getenv(...); if not account or not token: return 500
ChatCredentials ==
    /\ handler = "chat" /\ pc = "credentials"
    /\ LET account == ChatAccount(GetenvOrEmpty("account"))
           token   == GetenvOrEmpty("token")
       IN  IF ~Truthy(account) \/ ~Truthy(token)
           THEN Finish(Returned(ChatMissingCredentialsEnvelope), NoExc)
           ELSE Continue("post")
    /\ UNCHANGED <<fixedVars, chatVars, sqlVars, dbVars>>

\* url, request_body and headers of the call
ChatRequest ==
    LET account == ChatAccount(GetenvOrEmpty("account")) IN
    [url           |-> Str("https://") \o AccountUrl(account)
                           \o <<Suffix, "/api/v2/cortex/analyst/message">>,
     authorization |-> Str("Bearer ") \o GetenvOrEmpty("token"),
     json          |-> [messages            |-> messages,
                        semantic_model_file |-> Str("@") \o semantic_model]]

\* response = requests.post(url, headers=headers, json=request_body, timeout=120)
ChatPost ==
    /\ handler = "chat" /\ pc = "post"
    /\ restRequest' = ChatRequest
    /\ restCalls' = restCalls + 1
    /\ \/ \E e \in PostErrors :
             Finish(ChatExcept(e), e) /\ UNCHANGED remote
       \/ \E r \in RemoteResponses :
             remote' = Reached(r) /\ Continue("respond")
    /\ UNCHANGED <<fixedVars, sqlVars, dbVars, messages, semantic_model>>

ErrorData_TextOnly(body) == [message |-> ResponseText(body)]

\* the else branch: error_data = response.json(), or {"message": response.text}
ErrorData(body) ==
    IF JsonParses(body) THEN JsonLoads(body) ELSE [message |-> ResponseText(body)]

UpstreamEnvelope(status, body) ==
    Envelope(status,
        [error   |-> <<"Cortex Analyst API error: ", ToString(status)>>,
         details |-> ErrorData(body)])

ChatSuccessEnvelope_Wrapped(body) == Envelope(200, [response |-> JsonLoads(body)])

\* response_data = response.json(); return {200, json.dumps(response_data)}
ChatSuccessEnvelope(body) == Envelope(200, JsonLoads(body))

\* if response.status_code == 200: relay response.json(); else: the error
ChatRespond ==
    /\ handler = "chat" /\ pc = "respond"
    /\ IF remote.status = 200
       THEN IF JsonParses(remote.body)
            THEN Finish(Returned(ChatSuccessEnvelope(remote.body)), NoExc)
            ELSE \E e \in ResponseJsonErrors : Finish(ChatExcept(e), e)
       ELSE Finish(Returned(UpstreamEnvelope(remote.status, remote.body)), NoExc)
    /\ UNCHANGED <<fixedVars, chatVars, sqlVars, dbVars>>

(***************************************************************************)
(* test_snowflake_handler                                                  *)
(***************************************************************************)
\* if not all([account, user, token]): return 400
TestValidate ==
    /\ handler = "test" /\ pc = "start"
    /\ IF \A k \in {"user", "password", "account"} : Present(ConnectionArgs[k])
       THEN Continue("connect")
       ELSE Finish(Returned(TestMissingCredentialsEnvelope), NoExc)
    /\ UNCHANGED <<fixedVars, chatVars, sqlVars, dbVars>>

\* conn = snowflake.connector.connect(...); cursor = conn.cursor()
TestConnect ==
    /\ handler = "test" /\ pc = "connect"
    /\ connectArgs' = ConnectionArgs
    /\ connectAttempts' = connectAttempts + 1
    /\ \E e \in ConnectOutcomes(ConnectionArgs) :
          IF e = NoExc
          THEN conn' = "open" /\ cursor' = "open" /\ Continue("query")
          ELSE Finish(TestExcept(e), e) /\ UNCHANGED <<conn, cursor>>
    /\ UNCHANGED <<fixedVars, chatVars, sqlVars, rows>>

\* cursor.execute("SELECT CURRENT_VERSION(), ..."); result = cursor.fetchone()
TestQuery ==
    /\ handler = "test" /\ pc = "query"
    /\ \E e \in ExecuteOutcomes \cup FetchOutcomes :
          IF e = NoExc
          THEN /\ \E r \in {<<VersionRow>>, <<>>} : rows' = r
               /\ Continue("close")
          ELSE Finish(TestExcept(e), e) /\ UNCHANGED rows
    /\ UNCHANGED <<fixedVars, chatVars, sqlVars, conn, cursor, connectArgs,
                   connectAttempts>>

\* cursor.close(); conn.close()
TestClose ==
    /\ handler = "test" /\ pc = "close"
    /\ cursor' = "closed"
    /\ conn' = "closed"
    /\ Continue("return")
    /\ UNCHANGED <<fixedVars, chatVars, sqlVars, connectArgs, connectAttempts, rows>>

\* return {..., "body": json.dumps({message, snowflake_version: result[0], ...})}
TestReturn ==
    /\ handler = "test" /\ pc = "return"
    /\ IF rows = <<>>
       THEN Finish(TestExcept(SubscriptNoneError), SubscriptNoneError)
       ELSE Finish(Returned(TestSuccessEnvelope(rows[1])), NoExc)
    /\ UNCHANGED <<fixedVars, chatVars, sqlVars, dbVars>>

Next ==
    \/ \E h \in Handlers, ev \in Events : Invoke(h, ev)
    \/ LambdaHandler
    \/ SqlValidate
    \/ SqlConnect
    \/ SqlExecute
    \/ SqlFetch
    \/ SqlNormalize
    \/ SqlClose
    \/ SqlReturn
    \/ ChatValidate
    \/ ChatCredentials
    \/ ChatPost
    \/ ChatRespond
    \/ TestValidate
    \/ TestConnect
    \/ TestQuery
    \/ TestClose
    \/ TestReturn

Spec == Init /\ [][Next]_vars

(***************************************************************************)
(* execute_sql_handler from the point where the statement has been         *)
(* executed and fetched, for every result set of ResultSets.               *)
(***************************************************************************)
FetchedEnv ==
    [account |-> SetTo(Str("ABC123")),
     user    |-> SetTo(Str("SVC_USER")),
     token   |-> SetTo(Str("pat-secret"))]

FetchedEvent == [hasBody |-> TRUE, body |-> ObjectText([sql |-> Str("SELECT 1 AS V")])]

InitFetched ==
    /\ env = FetchedEnv
    /\ pc = "normalize"
    /\ handler = "sql"
    /\ event = FetchedEvent
    /\ sql = Str("SELECT 1 AS V")
    /\ messages = <<>>
    /\ semantic_model = EmptyStr
    /\ conn = "open"
    /\ cursor = "open"
    /\ connectArgs = [user     |-> FetchedEnv.user,
                      password |-> FetchedEnv.token,
                      account  |-> FetchedEnv.account]
    /\ connectAttempts = 1
    /\ restCalls = 0
    /\ restRequest = NoRequest
    /\ remote = NoResponse
    /\ \E rs \in ResultSets : columns = rs.columns /\ rows = rs.rows
    /\ results = <<>>
    /\ exc = NoExc
    /\ resp = NoEnvelope
    /\ returned = 0
    /\ escaped = FALSE
    /\ invocations = 1
    /\ leaked = 0

NextFetched ==
    \/ SqlNormalize
    \/ SqlClose
    \/ SqlReturn

SpecFetched == InitFetched /\ [][NextFetched]_vars

(***************************************************************************)
(* Properties.                                                             *)
(***************************************************************************)
Done(h) == pc = "done" /\ handler = h

\* the envelope's body is the JSON text of the object payload
BodyIs(payload) == resp.body.kind = "object" /\ resp.body.val = payload

\* the event's body is the JSON text of an object
BodyIsObject == event.hasBody /\ event.body.kind = "object"

\* the key of the event's JSON object is absent, or holds an empty str or list
KeyMissingOrEmpty(key) ==
    key \notin DOMAIN event.body.val \/ Len(event.body.val[key]) = 0

\* C1: when execute_sql_handler has returned, the connection and the cursor
\* it opened are closed, on every exit path.
C1_ConnectionReleased ==
    Done("sql") => conn # "open" /\ cursor # "open"

\* C2: a JSON object body whose "sql" is missing or "" makes
\* execute_sql_handler return 400 {"error": "No SQL query provided"} without
\* calling the connector.
C2_EmptySqlRejected ==
    (Done("sql") /\ BodyIsObject /\ KeyMissingOrEmpty("sql"))
        => /\ resp.statusCode = 400
           /\ BodyIs([error |-> <<"No SQL query provided">>])
           /\ connectAttempts = 0
           /\ conn = "none"

C2_Witness ==
    /\ Done("sql") /\ BodyIsObject
    /\ "sql" \in DOMAIN event.body.val
    /\ event.body.val["sql"] = <<>>
    /\ resp.statusCode = 400

\* C3: a JSON object body whose "messages" is missing or [] makes
\* cortex_analyst_chat_handler return 400 {"error": "No messages provided"}
\* without a REST call, in every environment.
C3_EmptyMessagesRejected ==
    (Done("chat") /\ BodyIsObject /\ KeyMissingOrEmpty("messages"))
        => /\ resp.statusCode = 400
           /\ BodyIs([error |-> <<"No messages provided">>])
           /\ restCalls = 0
           /\ ~remote.reached

C3_Witness ==
    /\ Done("chat") /\ BodyIsObject
    /\ "messages" \in DOMAIN event.body.val
    /\ event.body.val["messages"] = <<>>
    /\ ~env.token.set
    /\ resp.statusCode = 400

\* C4: when the remote chat endpoint answered with a status s other than 200,
\* the envelope has statusCode s and a body with "error" and "details", the
\* latter the remote JSON body, or {"message": <raw text>} when it is not JSON.
C4_UpstreamErrorRelayed ==
    (Done("chat") /\ remote.reached /\ remote.status # 200)
        => /\ resp.statusCode = remote.status
           /\ resp.body.kind = "object"
           /\ DOMAIN resp.body.val = {"error", "details"}
           /\ Len(resp.body.val.error) > 0
           /\ resp.body.val.details =
                 IF remote.body.kind = "object"
                 THEN remote.body.val
                 ELSE [message |-> remote.body.val]

C4_Witness ==
    /\ Done("chat") /\ remote.reached /\ remote.status = 403
    /\ remote.body.kind = "object"
    /\ resp.statusCode = 403
    /\ resp.body.val.details = [message |-> <<"forbidden">>]

C4_WitnessRawText ==
    /\ Done("chat") /\ remote.reached /\ remote.status = 500
    /\ remote.body.kind = "raw"
    /\ resp.body.val.details = [message |-> <<"<html>Bad Gateway</html>">>]

\* the envelope carries the transport-failure tag
TransportTagged ==
    /\ resp.body.kind = "object"
    /\ "type" \in DOMAIN resp.body.val
    /\ resp.body.val.type = "RequestException"

\* C5: the chat envelope is tagged as a transport failure exactly when
\* requests.post was called and the endpoint gave no response.
C5_TransportTagIffUnreached ==
    Done("chat") => (TransportTagged <=> (restCalls > 0 /\ ~remote.reached))

\* an environment value is absent or empty
Missing(name) == ~env[name].set \/ Len(env[name].val) = 0

\* the caller input is valid and a credential the handler needs is missing
ValidInputMissingCredential ==
    \/ /\ handler = "sql" /\ BodyIsObject
       /\ "sql" \in DOMAIN event.body.val
       /\ event.body.val["sql"] = <<"SELECT 1 AS V">>
       /\ (Missing("account") \/ Missing("user") \/ Missing("token"))
    \/ /\ handler = "chat" /\ BodyIsObject
       /\ ~KeyMissingOrEmpty("messages")
       /\ (Missing("account") \/ Missing("token"))

\* C6: with valid input and a missing credential, both handlers return 500
\* with an error naming the missing credentials, and call neither the
\* connector nor the REST endpoint.
C6_MissingCredentialNoCall ==
    (pc = "done" /\ ValidInputMissingCredential)
        => /\ resp.statusCode = 500
           /\ resp.body.kind = "object"
           /\ resp.body.val.error = <<"Missing Snowflake credentials">>
           /\ connectAttempts = 0
           /\ restCalls = 0

\* C7: a whitespace-only "sql" makes execute_sql_handler return the 400
\* validation envelope without calling the connector.
C7_WhitespaceSqlRejected ==
    (/\ Done("sql") /\ BodyIsObject
     /\ "sql" \in DOMAIN event.body.val
     /\ Len(event.body.val["sql"]) > 0
     /\ \A i \in 1..Len(event.body.val["sql"]) : event.body.val["sql"][i] = " ")
        => /\ resp.statusCode = 400
           /\ BodyIs([error |-> <<"No SQL query provided">>])
           /\ connectAttempts = 0

\* C8: a body that is None or "" is missing caller input: 400 with the
\* handler's validation error, and no downstream call.
C8_EmptyBodyIsMissingInput ==
    (/\ pc = "done" /\ handler \in {"sql", "chat"}
     /\ event.hasBody /\ event.body.kind \in {"none", "empty"})
        => /\ resp.statusCode = 400
           /\ BodyIs(IF handler = "sql"
                     THEN [error |-> <<"No SQL query provided">>]
                     ELSE [error |-> <<"No messages provided">>])
           /\ connectAttempts = 0
           /\ restCalls = 0

IsSuffix(t, s) ==
    Len(t) <= Len(s) /\ SubSeq(s, Len(s) - Len(t) + 1, Len(s)) = t

Is2xx(status) == status \in 200..299

\* a call to the engine or to the chat endpoint failed
DownstreamFailed ==
    \/ exc.module \in {"snowflake", "requests"}
    \/ remote.reached /\ ~Is2xx(remote.status)

\* requests.post did not get a response
TransportFailed == restCalls > 0 /\ ~remote.reached

\* C9: an invocation that has started can always take its next step, returns
\* one envelope and lets no exception escape; an
\* exception that is not a transport failure gives 500 with the exception's
\* message in "error" and a "type"; a failed downstream call gives no 2xx.
C9_OneEnvelopeNoEscape ==
    /\ returned <= 1
    /\ ~escaped
    /\ pc = "done" => returned = 1 /\ resp.statusCode # 0
    /\ pc \notin {"idle", "done"} => returned = 0 /\ ENABLED Next
    /\ (pc = "done" /\ exc # NoExc /\ ~TransportFailed)
          => /\ resp.statusCode = 500
             /\ resp.body.kind = "object"
             /\ {"error", "type"} \subseteq DOMAIN resp.body.val
             /\ IsSuffix(exc.msg, resp.body.val.error)
    /\ (pc = "done" /\ DownstreamFailed) => ~Is2xx(resp.statusCode)

C9_Witness ==
    /\ Done("sql") /\ exc.type = "ProgrammingError" /\ connectAttempts = 1
    /\ conn = "open"
    /\ resp.statusCode = 500
    /\ resp.body.val.type = "ProgrammingError"

\* C10: every returned envelope has the two headers and a body that is the
\* payload serialized once: parsing it once gives the payload object.
C10_EnvelopeShape ==
    (pc = "done" /\ returned = 1)
        => /\ {"Content-Type", "Access-Control-Allow-Origin"} \subseteq DOMAIN resp.headers
           /\ resp.headers["Content-Type"] = "application/json"
           /\ resp.headers["Access-Control-Allow-Origin"] = "*"
           /\ JsonParses(resp.body)
           /\ ~IsText(JsonLoads(resp.body))

C10_Witness ==
    /\ Done("chat") /\ TransportFailed
    /\ resp.statusCode = 500
    /\ resp.headers["Access-Control-Allow-Origin"] = "*"
    /\ resp.body.kind = "object"

\* the fetched result set is well formed: unique column names, every row
\* as long as the column list
WellFormed ==
    /\ \A i, j \in 1..Len(columns) : columns[i] = columns[j] => i = j
    /\ \A i \in 1..Len(rows) : Len(rows[i]) = Len(columns)

HasOtherCell ==
    \E i \in 1..Len(rows) : \E j \in 1..Len(rows[i]) : rows[i][j].t = "other"

\* C11: a well-formed result set with a cell of another type than null,
\* text, integer, floating-point, decimal, date or timestamp ends in the 200
\* envelope, no exception raised.
C11_OtherCellSucceeds ==
    (Done("sql") /\ WellFormed /\ HasOtherCell)
        => resp.statusCode = 200 /\ exc = NoExc

\* the JSON type a cell of Python type t is rendered as
JsonTypeOf(t) ==
    IF t \in {"date", "timestamp"} THEN "text"
    ELSE IF t = "decimal" THEN "float"
    ELSE t

\* C12: for a well-formed result set the 200 body has "columns" equal to the
\* column names in order, "data" with one mapping per fetched row in row
\* order, each with exactly one key per column, and "row_count" equal to the
\* number of fetched rows.
C12_SuccessBodyShape ==
    (Done("sql") /\ resp.statusCode = 200 /\ WellFormed)
        => /\ resp.body.kind = "object"
           /\ DOMAIN resp.body.val = {"columns", "data", "row_count"}
           /\ resp.body.val.columns = columns
           /\ resp.body.val.row_count = Len(rows)
           /\ DOMAIN resp.body.val.data = 1..Len(rows)
           /\ \A i \in 1..Len(rows) :
                 /\ DOMAIN resp.body.val.data[i] = {columns[j] : j \in 1..Len(columns)}
                 /\ \A j \in 1..Len(columns) :
                       resp.body.val.data[i][columns[j]].t = JsonTypeOf(rows[i][j].t)

\* one row {"V": 1} gives {"columns": ["V"], "data": [{"V": 1}], "row_count": 1}
C12_Witness ==
    /\ Done("sql")
    /\ columns = <<"V">>
    /\ rows = << <<[t |-> "int", v |-> <<"1">>]>> >>
    /\ resp.statusCode = 200
    /\ resp.body.val =
          [columns   |-> <<"V">>,
           data      |-> <<[V |-> [t |-> "int", v |-> <<"1">>]]>>,
           row_count |-> 1]

C12_WitnessTwoRows ==
    /\ Done("sql") /\ resp.statusCode = 200
    /\ Len(columns) = 2 /\ WellFormed
    /\ Len(rows) = 2 /\ rows[1] # rows[2]

\* the integer a str of decimal digits denotes
IntVal(d) == CHOOSE n \in 0..99 : ToString(n) = d

RECURSIVE FractionNum(_, _)
FractionNum(v, i) ==
    IF i > Len(v) THEN 0
    ELSE IntVal(v[i]) * 10 ^ (Len(v) - i) + FractionNum(v, i + 1)

\* v = <<integer part, ".", digit, ...>> denotes Num(v) / 10 ^ Scale(v)
Scale(v) == Len(v) - 2

Num(v) == IntVal(v[1]) * 10 ^ Scale(v) + FractionNum(v, 3)

SameNumber(a, b) == Num(a) * 10 ^ Scale(b) = Num(b) * 10 ^ Scale(a)

\* the rule of the claim for a cell c rendered as out
CellRule(c, out) ==
    IF c.t = "null" THEN out.t = "null"
    ELSE IF c.t = "date"
    THEN out.t = "text" /\ out.v = <<c.v[1], "-", c.v[2], "-", c.v[3]>>
    ELSE IF c.t = "timestamp"
    THEN /\ out.t = "text"
         /\ Len(out.v) = 11
         /\ SubSeq(out.v, 1, 6) = <<c.v[1], "-", c.v[2], "-", c.v[3], "T">>
    ELSE IF c.t = "decimal" THEN out.t = "float" /\ SameNumber(c.v, out.v)
    ELSE IF c.t \in {"int", "float", "text"} THEN out = c
    ELSE TRUE

Normalized == handler = "sql" /\ pc \in {"close", "return", "done"}

\* C13: every cell of a well-formed result set is rendered by its type
\* alone: null as null, a date or timestamp as its ISO-8601 str with the
\* same calendar date, a decimal as the float of the same number, an
\* integer, float or text unchanged; equal cells are rendered equally
\* wherever they stand.
C13_CellRules ==
    (Normalized /\ WellFormed /\ Len(results) = Len(rows))
        => /\ \A i \in 1..Len(rows) : \A j \in 1..Len(columns) :
                 CellRule(rows[i][j], results[i][columns[j]])
           /\ \A i, k \in 1..Len(rows) : \A j, l \in 1..Len(columns) :
                 rows[i][j] = rows[k][l]
                     => results[i][columns[j]] = results[k][columns[l]]
           /\ (pc = "done" /\ resp.statusCode = 200)
                 => resp.body.val.data = results

\* Decimal("12.50") becomes 12.5, next to a date in the same row
C13_Witness ==
    /\ Done("sql") /\ WellFormed /\ resp.statusCode = 200
    /\ Len(rows) = 2 /\ Len(columns) = 2
    /\ rows[1][1] = [t |-> "decimal", v |-> <<"12", ".", "5", "0">>]
    /\ results[1][columns[1]] = [t |-> "float", v |-> <<"12", ".", "5">>]
    /\ rows[1][2].t = "date"
    /\ results[1][columns[2]] = [t |-> "text", v |-> <<"2024", "-", "01", "-", "15">>]

LeadingIdentifier(s) ==
    IF \E i \in 1..Len(s) : s[i] = Suffix
    THEN LET first == CHOOSE i \in 1..Len(s) :
                          s[i] = Suffix /\ \A j \in 1..(i - 1) : s[j] # Suffix
         IN  SubSeq(s, 1, first - 1)
    ELSE s

\* every underscore replaced by a hyphen
Hyphenated(s) == [i \in 1..Len(s) |-> IF s[i] = "_" THEN "-" ELSE s[i]]

\* C15: the account handed to the connector and the account the chat
\* endpoint's host is built from are both the leading identifier of the
\* account value, the latter with every underscore replaced by a hyphen.
C15_SameNormalization ==
    /\ (connectAttempts > 0 /\ env.account.set)
          => connectArgs.account.val = LeadingIdentifier(env.account.val)
    /\ (handler = "chat" /\ restCalls > 0)
          => restRequest.url =
                <<"https://">> \o Hyphenated(LeadingIdentifier(env.account.val))
                    \o <<Suffix, "/api/v2/cortex/analyst/message">>

====
